---- MODULE Spec2Model ----
(***************************************************************************)
(* The DuckDB dialect compiler of ibis (ibis/backends/duckdb/compiler.py). *)
(*                                                                         *)
(* Every translation rule is a pure function from a node's                 *)
(* already-translated children and literal fields to a target expression   *)
(* or to a raised exception.  The state is the last node compiled, the     *)
(* row the emitted expression is evaluated on, and the rule's outcome.     *)
(* Target expressions are trees (records); Eval gives them the engine's    *)
(* meaning so that rules about indices, slices, nulls and defaults are     *)
(* decided by what the emitted expression computes.                        *)
(***************************************************************************)
EXTENDS Integers, Sequences, FiniteSets, TLC

VARIABLES op, node, env, out

vars == <<op, node, env, out>>

(***************************************************************************)
(* Bounds of the model.                                                    *)
(***************************************************************************)
\* longest array handed to the index and slice rules
MaxSliceLen == 5
\* indices range over -MaxIdx..MaxIdx (beyond the longest array on both sides)
MaxIdx == 7
\* longest array handed to the distinct rule
MaxLen == 5
\* longest operand handed to the union rule
MaxUnionLen == 2
\* non-null array elements and map keys/values are 1..MaxElem
MaxElem == 3
\* most children a uniform-mapping node carries
MaxArgs == 2

(***************************************************************************)
(* Runtime values of the target engine.                                    *)
(***************************************************************************)
VNull == [t |-> "null"]
VInt(n) == [t |-> "int", n |-> n]
VBool(b) == [t |-> "bool", b |-> b]
VList(s) == [t |-> "list", s |-> s]
VMap(m) == [t |-> "map", m |-> m]

IsNull(v) == v.t = "null"

(***************************************************************************)
(* Target expressions (sqlglot nodes).                                     *)
(***************************************************************************)
\* the compiler's NULL constant
NULL == [k |-> "null"]
\* a translated child: a reference to a column of the row
Col(name) == [k |-> "col", name |-> name]
\* a Python int converted to a literal
Lit(n) == [k |-> "lit", n |-> n]
\* self.f[name](*args) and the operators sqlglot overloads (>=, <, +, -, is_, neq)
Call(name, args) == [k |-> "call", name |-> name, args |-> args]
\* self.cast(this, to)
Cast(this, to) == [k |-> "cast", this |-> this, to |-> to]
\* self.if_(cond, t, e)
If(c, t, e) == Call("if", <<c, t, e>>)

Max(a, b) == IF a >= b THEN a ELSE b
Min(a, b) == IF a <= b THEN a ELSE b

\* the elements of s at the 1-based positions lo..hi that exist
SelectIdx(s, lo, hi) ==
    IF s = <<>> \/ lo > hi \/ lo > Len(s) THEN <<>>
    ELSE [i \in 1..(Min(hi, Len(s)) - Max(lo, 1) + 1) |-> s[Max(lo, 1) + i - 1]]

\* first occurrences of the non-null elements, in order
RECURSIVE Dedup(_, _)
Dedup(s, seen) ==
    IF s = <<>> THEN <<>>
    ELSE IF IsNull(Head(s)) \/ Head(s) \in seen THEN Dedup(Tail(s), seen)
    ELSE <<Head(s)>> \o Dedup(Tail(s), seen \cup {Head(s)})

NonNullCount(s) == Cardinality({i \in DOMAIN s : ~IsNull(s[i])})

(***************************************************************************)
(* The engine's primitives, applied to evaluated arguments a.              *)
(***************************************************************************)
Prim(name, a, mode) ==
    CASE name \in {"len", "array_size"} ->
            IF a[1].t = "list" THEN VInt(Len(a[1].s)) ELSE VNull
      [] name = "list_count" ->
            IF a[1].t = "list" THEN VInt(NonNullCount(a[1].s)) ELSE VNull
      [] name = "list_distinct" ->
            IF a[1].t = "list" THEN VList(Dedup(a[1].s, {})) ELSE VNull
      [] name = "array" -> VList(a)
      [] name = "list_concat" ->
            IF a[1].t = "list" /\ a[2].t = "list" THEN VList(a[1].s \o a[2].s)
            ELSE IF mode = "skip" /\ a[1].t = "list" THEN a[1]
            ELSE IF mode = "skip" /\ a[2].t = "list" THEN a[2]
            ELSE VNull
      [] name = "list_extract" ->
            IF a[1].t = "list" /\ a[2].t = "int"
            THEN LET L == Len(a[1].s)
                     p == IF a[2].n < 0 THEN L + a[2].n + 1 ELSE a[2].n
                 IN IF p >= 1 /\ p <= L THEN a[1].s[p] ELSE VNull
            ELSE VNull
      [] name = "list_slice" ->
            IF a[1].t = "list" /\ a[2].t = "int" /\ a[3].t = "int"
            THEN VList(SelectIdx(a[1].s, a[2].n, a[3].n))
            ELSE VNull
      [] name = "element_at" ->
            IF a[1].t = "map" /\ a[2].t = "int"
            THEN IF a[2].n \in DOMAIN a[1].m THEN VList(<<a[1].m[a[2].n]>>)
                 ELSE VList(<<>>)
            ELSE VNull
      [] name = "ifnull" -> IF IsNull(a[1]) THEN a[2] ELSE a[1]
      [] name = "greatest" ->
            IF a[1].t = "int" /\ a[2].t = "int" THEN VInt(Max(a[1].n, a[2].n)) ELSE VNull
      [] name = "least" ->
            IF a[1].t = "int" /\ a[2].t = "int" THEN VInt(Min(a[1].n, a[2].n)) ELSE VNull
      [] name = "gte" ->
            IF a[1].t = "int" /\ a[2].t = "int" THEN VBool(a[1].n >= a[2].n) ELSE VNull
      [] name = "lt" ->
            IF a[1].t = "int" /\ a[2].t = "int" THEN VBool(a[1].n < a[2].n) ELSE VNull
      [] name = "neq" ->
            IF a[1].t = "int" /\ a[2].t = "int" THEN VBool(a[1].n # a[2].n) ELSE VNull
      [] name = "neg" ->
            IF a[1].t = "int" THEN VInt(0 - a[1].n) ELSE VNull
      [] name = "add" ->
            IF a[1].t = "int" /\ a[2].t = "int" THEN VInt(a[1].n + a[2].n)
            ELSE IF a[1].t = "list" /\ a[2].t = "list" THEN VList(a[1].s \o a[2].s)
            ELSE VNull
      [] name = "is" -> VBool(IsNull(a[1]) /\ IsNull(a[2]))
      [] name = "if" ->
            IF a[1].t = "bool" /\ a[1].b THEN a[2] ELSE a[3]
      [] OTHER -> VNull

\* the value the engine computes for expression e on row r
RECURSIVE Eval(_, _)
Eval(e, r) ==
    CASE e.k = "null" -> VNull
      [] e.k = "lit" -> VInt(e.n)
      [] e.k = "col" -> r[e.name]
      [] e.k = "cast" ->
            LET v == Eval(e.this, r)
            IN IF v.t = "bool" THEN VInt(IF v.b THEN 1 ELSE 0) ELSE v
      [] e.k = "call" ->
            Prim(e.name, [i \in DOMAIN e.args |-> Eval(e.args[i], r)], r.mode)
      [] OTHER -> VNull

(***************************************************************************)
(* Outcomes of a rule.                                                     *)
(***************************************************************************)
Produced(e) == [kind |-> "expr", expr |-> e]
Raised(exc, msg) == [kind |-> "raise", exc |-> exc, msg |-> msg]
\* the rule returned None: it has no rendering of its own for the node
Unhandled == [kind |-> "unhandled"]

\* the exception classes the rules end in
UnsupportedOperationError == "UnsupportedOperationError"
NotImplementedError == "NotImplementedError"
KeyError == "KeyError"

NanosecondMsg == "doesn't support nanosecond interval resolutions"

(***************************************************************************)
(* Data types and units of the operation graph.                            *)
(***************************************************************************)
DType(name, unit, nullable) ==
    [k |-> "dtype", name |-> name, unit |-> unit, nullable |-> nullable]

Int32(nullable) == DType("int32", "", nullable)
Int64 == DType("int64", "", TRUE)
Float32 == DType("float32", "", TRUE)

IntervalUnits == {"Y", "Q", "M", "W", "D", "h", "m", "s", "ms", "us", "ns"}
TimestampUnits == {"s", "ms", "us", "ns"}

\* IntervalUnit.singular and IntervalUnit.plural
UnitSingular ==
    [Y |-> "year", Q |-> "quarter", M |-> "month", W |-> "week", D |-> "day",
     h |-> "hour", m |-> "minute", s |-> "second", ms |-> "millisecond",
     us |-> "microsecond", ns |-> "nanosecond"]

UnitPlural ==
    [Y |-> "years", Q |-> "quarters", M |-> "months", W |-> "weeks", D |-> "days",
     h |-> "hours", m |-> "minutes", s |-> "seconds", ms |-> "milliseconds",
     us |-> "microseconds", ns |-> "nanoseconds"]

\* f"to_{plural}"
ToFunc ==
    [years |-> "to_years", quarters |-> "to_quarters", months |-> "to_months",
     weeks |-> "to_weeks", days |-> "to_days", hours |-> "to_hours",
     minutes |-> "to_minutes", seconds |-> "to_seconds",
     milliseconds |-> "to_milliseconds", microseconds |-> "to_microseconds",
     nanoseconds |-> "to_nanoseconds"]

\* dtype.resolution.upper()
ResolutionUpper ==
    [Y |-> "YEAR", Q |-> "QUARTER", M |-> "MONTH", W |-> "WEEK", D |-> "DAY",
     h |-> "HOUR", m |-> "MINUTE", s |-> "SECOND", ms |-> "MILLISECOND",
     us |-> "MICROSECOND", ns |-> "NANOSECOND"]

_INTERVAL_SUFFIXES ==
    [ms |-> "milliseconds", us |-> "microseconds", s |-> "seconds", m |-> "minutes",
     h |-> "hours", D |-> "days", M |-> "months", Y |-> "years"]

(***************************************************************************)
(* DuckDBCompiler._aggregate and the facade's self.agg[name](..., where=)  *)
(***************************************************************************)
None == [k |-> "none"]

Filter(this, expression) == [k |-> "filter", this |-> this, expression |-> expression]
Where(this) == [k |-> "where", this |-> this]

\* the builder that forgets the filter
AggregateUnfiltered(funcname, args, where) == Call(funcname, args)

_aggregate(funcname, args, where) ==
    LET expr == Call(funcname, args)
    IN IF where # None THEN Filter(expr, Where(where)) ELSE expr

agg(funcname, args, where) == _aggregate(funcname, args, where)

(***************************************************************************)
(* DuckDBCompiler.visit_IntervalFromInteger                                *)
(***************************************************************************)
visit_IntervalFromInteger(arg, unit) ==
    IF unit = "ns" THEN Raised(UnsupportedOperationError, NanosecondMsg)
    ELSE IF UnitSingular[unit] = "week"
         THEN Produced(Call("to_days", <<Call("mul", <<arg, Lit(7)>>)>>))
    ELSE Produced(Call(ToFunc[UnitPlural[unit]], <<arg>>))

(***************************************************************************)
(* DuckDBCompiler.visit_TimestampFromUNIX                                  *)
(***************************************************************************)
visit_TimestampFromUNIX(arg, unit) ==
    IF unit = "ms" THEN Produced(Call("epoch_ms", <<arg>>))
    ELSE IF unit = "s" THEN Produced([k |-> "unixtotime", this |-> arg])
    ELSE Raised(UnsupportedOperationError, "unit is not supported!")

(***************************************************************************)
(* DuckDBCompiler.visit_Cast; arg_dtype is op.arg.dtype                    *)
(***************************************************************************)
visit_Cast(arg_dtype, arg, to) ==
    IF to.name = "interval"
    THEN IF to.unit \in DOMAIN _INTERVAL_SUFFIXES
         THEN Produced(Call(ToFunc[_INTERVAL_SUFFIXES[to.unit]], <<Cast(arg, Int32(TRUE))>>))
         ELSE Raised(KeyError, to.unit)
    ELSE IF to.name = "timestamp" /\ arg_dtype.name \in {"int32", "int64"}
         THEN Produced(Call("to_timestamp", <<arg>>))
    ELSE Produced(Cast(arg, to))

(***************************************************************************)
(* DuckDBCompiler.visit_NonNullLiteral, for interval, uuid and numeric     *)
(* literals and those it leaves alone; value is [n, finite]                *)
(***************************************************************************)
\* sge.convert(str(value)): the literal holding the text of the value
StrOf(value) == [k |-> "str", of |-> value]

visit_NonNullLiteral(value, dtype) ==
    IF dtype.name = "interval"
    THEN IF dtype.unit = "ns" THEN Raised(UnsupportedOperationError, NanosecondMsg)
         ELSE Produced([k |-> "interval", this |-> StrOf(value),
                        unit |-> ResolutionUpper[dtype.unit]])
    ELSE IF dtype.name = "uuid" THEN Produced(Cast(StrOf(value), dtype))
    ELSE IF dtype.name \in {"int32", "int64", "float32", "float64", "decimal"}
         THEN IF ~value.finite
              THEN Produced(Cast(StrOf(value),
                                 IF dtype.name = "decimal" THEN Float32 ELSE dtype))
              ELSE Produced(Cast([k |-> "num", of |-> value], dtype))
    ELSE Unhandled

(***************************************************************************)
(* DuckDBCompiler.visit_Correlation; left_type and right_type are          *)
(* op.left.dtype and op.right.dtype                                        *)
(***************************************************************************)
SamplePopMsg == "only implements pop correlation coefficient"

\* the rule widening the right operand with the left operand's nullability
CorrelationLeftNullability(left_type, right_type, left, right, how, where) ==
    IF how = "sample" THEN Raised(UnsupportedOperationError, SamplePopMsg)
    ELSE LET l == IF left_type.name = "boolean"
                  THEN Cast(left, Int32(left_type.nullable)) ELSE left
             r == IF right_type.name = "boolean"
                  THEN Cast(right, Int32(left_type.nullable)) ELSE right
         IN [kind |-> "expr", expr |-> agg("corr", <<l, r>>, where)]

visit_Correlation(left_type, right_type, left, right, how, where) ==
    IF how = "sample" THEN Raised(UnsupportedOperationError, SamplePopMsg)
    ELSE LET l == IF left_type.name = "boolean"
                  THEN Cast(left, Int32(left_type.nullable)) ELSE left
             r == IF right_type.name = "boolean"
                  THEN Cast(right, Int32(right_type.nullable)) ELSE right
         IN Produced(agg("corr", <<l, r>>, where))

(***************************************************************************)
(* DuckDBCompiler.visit_HexDigest                                          *)
(***************************************************************************)
\* the rule answering an unknown algorithm with md5
HexDigestFallback(arg, how) ==
    [kind |-> "expr",
     expr |-> Call(IF how \in {"md5", "sha256"} THEN how ELSE "md5", <<arg>>)]

visit_HexDigest(arg, how) ==
    IF how \in {"md5", "sha256"} THEN Produced(Call(how, <<arg>>))
    ELSE Raised(NotImplementedError, "No available hashing function")

(***************************************************************************)
(* The uniform-mapping table and the rule its registration loop generates  *)
(***************************************************************************)
_SIMPLE_OPS ==
    [ArrayPosition |-> "list_indexof",
     BitAnd |-> "bit_and",
     BitOr |-> "bit_or",
     BitXor |-> "bit_xor",
     EndsWith |-> "suffix",
     Hash |-> "hash",
     IntegerRange |-> "range",
     TimestampRange |-> "range",
     MapKeys |-> "map_keys",
     MapLength |-> "cardinality",
     MapMerge |-> "map_concat",
     MapValues |-> "map_values",
     Mode |-> "mode",
     TimeFromHMS |-> "make_time",
     TypeOf |-> "typeof",
     GeoPoint |-> "st_point",
     GeoAsText |-> "st_astext",
     GeoArea |-> "st_area",
     GeoBuffer |-> "st_buffer",
     GeoCentroid |-> "st_centroid",
     GeoContains |-> "st_contains",
     GeoCovers |-> "st_covers",
     GeoCoveredBy |-> "st_coveredby",
     GeoCrosses |-> "st_crosses",
     GeoDifference |-> "st_difference",
     GeoDisjoint |-> "st_disjoint",
     GeoDistance |-> "st_distance",
     GeoDWithin |-> "st_dwithin",
     GeoEndPoint |-> "st_endpoint",
     GeoEnvelope |-> "st_envelope",
     GeoEquals |-> "st_equals",
     GeoFlipCoordinates |-> "st_flipcoordinates",
     GeoGeometryType |-> "st_geometrytype",
     GeoIntersection |-> "st_intersection",
     GeoIntersects |-> "st_intersects",
     GeoIsValid |-> "st_isvalid",
     GeoLength |-> "st_length",
     GeoNPoints |-> "st_npoints",
     GeoOverlaps |-> "st_overlaps",
     GeoStartPoint |-> "st_startpoint",
     GeoTouches |-> "st_touches",
     GeoUnion |-> "st_union",
     GeoUnaryUnion |-> "st_union_agg",
     GeoWithin |-> "st_within",
     GeoX |-> "st_x",
     GeoY |-> "st_y"]

\* the kinds of the table that are subclasses of ops.Reduction
Reductions == {"BitAnd", "BitOr", "BitXor", "Mode", "GeoUnaryUnion"}

\* _fmt: kw is the node's children other than where, in argument order
_fmt(kind, kw, where) ==
    IF kind \in Reductions
    THEN Produced(agg(_SIMPLE_OPS[kind], kw, where))
    ELSE Produced(Call(_SIMPLE_OPS[kind], kw))

(***************************************************************************)
(* DuckDBCompiler._neg_idx_to_pos                                          *)
(***************************************************************************)
\* the rule without the greatest() that clamps the magnitude to the length
NegIdxUnclamped(array, idx) ==
    LET arg_length == Call("array_size", <<array>>)
    IN Call("if", <<Call("gte", <<idx, Lit(0)>>), idx, Call("add", <<arg_length, idx>>)>>)

_neg_idx_to_pos(array, idx) ==
    LET arg_length == Call("array_size", <<array>>)
    IN If(Call("gte", <<idx, Lit(0)>>),
          idx,
          Call("add", <<arg_length,
                        Call("greatest", <<idx, Call("neg", <<arg_length>>)>>)>>))

(***************************************************************************)
(* DuckDBCompiler.visit_ArrayIndex                                         *)
(***************************************************************************)
\* the rule shifting every index by one, negative ones too
ArrayIndexAlwaysShift(arg, index, index_dtype) ==
    [kind |-> "expr",
     expr |-> Call("list_extract", <<arg, Call("add", <<index, Lit(1)>>)>>)]

visit_ArrayIndex(arg, index, index_dtype) ==
    Produced(Call("list_extract",
        <<arg, Call("add", <<index, Cast(Call("gte", <<index, Lit(0)>>), index_dtype)>>)>>))

(***************************************************************************)
(* DuckDBCompiler.visit_ArraySlice; start and stop are None or expressions *)
(***************************************************************************)
\* start + 1: Python adds two ints itself, sqlglot builds an Add otherwise
PlusOne(start) ==
    IF start.k = "lit" THEN Lit(start.n + 1) ELSE Call("add", <<start, Lit(1)>>)

SliceStart(arg, start) ==
    IF start = None THEN Lit(0)
    ELSE Call("least", <<Call("len", <<arg>>), _neg_idx_to_pos(arg, start)>>)

SliceStop(arg, stop) ==
    IF stop = None THEN Call("len", <<arg>>)
    ELSE _neg_idx_to_pos(arg, stop)

\* the rule passing the 0-based start to the 1-based primitive
ArraySliceNoShift(arg, start, stop) ==
    [kind |-> "expr",
     expr |-> Call("list_slice", <<arg, SliceStart(arg, start), SliceStop(arg, stop)>>)]

visit_ArraySlice(arg, start, stop) ==
    Produced(Call("list_slice",
        <<arg, PlusOne(SliceStart(arg, start)), SliceStop(arg, stop)>>))

(***************************************************************************)
(* DuckDBCompiler.visit_ArrayDistinct                                      *)
(***************************************************************************)
\* the rule comparing the deduplicated length with the original length
ArrayDistinctByDedupLen(arg) ==
    [kind |-> "expr",
     expr |-> Call("if", <<Call("is", <<arg, NULL>>), NULL,
                 Call("add", <<Call("list_distinct", <<arg>>),
                     Call("if", <<Call("lt", <<Call("len", <<Call("list_distinct", <<arg>>)>>),
                                              Call("len", <<arg>>)>>),
                                 Call("array", <<NULL>>),
                                 Call("array", <<>>)>>)>>)>>)]

visit_ArrayDistinct(arg) ==
    Produced(If(Call("is", <<arg, NULL>>),
                NULL,
                Call("add", <<Call("list_distinct", <<arg>>),
                              If(Call("lt", <<Call("list_count", <<arg>>), Call("len", <<arg>>)>>),
                                 Call("array", <<NULL>>),
                                 Call("array", <<>>))>>)))

(***************************************************************************)
(* DuckDBCompiler.visit_ArrayUnion                                         *)
(***************************************************************************)
visit_ArrayUnion(left, right) ==
    LET arg == Call("list_concat", <<left, right>>)
    IN Produced(If(Call("is", <<arg, NULL>>),
                   NULL,
                   Call("add", <<Call("list_distinct", <<arg>>),
                                 If(Call("lt", <<Call("list_count", <<arg>>), Call("len", <<arg>>)>>),
                                    Call("array", <<NULL>>),
                                    Call("array", <<>>))>>)))

(***************************************************************************)
(* DuckDBCompiler.visit_MapGet and visit_MapContains                       *)
(***************************************************************************)
visit_MapGet(arg, key, default) ==
    Produced(Call("ifnull",
        <<Call("list_extract", <<Call("element_at", <<arg, key>>), Lit(1)>>), default>>))

visit_MapContains(arg, key) ==
    Produced(Call("neq", <<Call("len", <<Call("element_at", <<arg, key>>)>>), Lit(0)>>))

(***************************************************************************)
(* Inputs.                                                                 *)
(***************************************************************************)
\* an array element or a map value: null or one of 1..MaxElem
Elems == {VNull} \cup {VInt(n) : n \in 1..MaxElem}

ArraysUpTo(n) == {VList(s) : s \in UNION {[1..l -> Elems] : l \in 0..n}}

\* maps from some of the keys 1..MaxElem to elements
Maps == {VMap(m) : m \in UNION {[ks -> Elems] : ks \in SUBSET (1..MaxElem)}}

\* what list_concat makes of a null operand differs between engine versions
ConcatModes == {"skip", "null"}

Idx == (0 - MaxIdx)..MaxIdx

\* arrays of distinct elements 10, 20, ...: an element names its position
SliceArrays == {VList([i \in 1..L |-> VInt(10 * i)]) : L \in 0..MaxSliceLen}

Init ==
    /\ op = "none"
    /\ node = [none |-> TRUE]
    /\ env = [mode |-> "skip"]
    /\ out = [kind |-> "none"]

\* the compiler is between two nodes: the pass is synchronous and single-threaded
Idle == op = "none"

\* the outcome goes to the caller unchanged and the pass moves on
Return ==
    /\ ~Idle
    /\ op' = "none"
    /\ node' = [none |-> TRUE]
    /\ env' = [mode |-> "skip"]
    /\ out' = [kind |-> "none"]

ArrayIndex ==
    /\ Idle
    /\ \E a \in SliceArrays, i \in Idx :
           /\ op' = "ArrayIndex"
           /\ node' = [index |-> Col("index")]
           /\ env' = [mode |-> "skip", arg |-> a, index |-> VInt(i)]
           /\ out' = visit_ArrayIndex(Col("arg"), Col("index"), Int64)

\* a slice bound: omitted, or a translated child read from the row
OptBound(name) == {None, Col(name)}

ArraySlice ==
    /\ Idle
    /\ \E a \in SliceArrays, s \in Idx, e \in Idx,
          start \in OptBound("start"), stop \in OptBound("stop") :
           /\ op' = "ArraySlice"
           /\ node' = [start |-> start, stop |-> stop]
           /\ env' = [mode |-> "skip", arg |-> a,
                      start |-> IF start = None THEN VNull ELSE VInt(s),
                      stop |-> IF stop = None THEN VNull ELSE VInt(e)]
           /\ out' = visit_ArraySlice(Col("arg"), start, stop)

ArrayDistinct ==
    /\ Idle
    /\ \E a \in ArraysUpTo(MaxLen) \cup {VNull} :
           /\ op' = "ArrayDistinct"
           /\ node' = [arg |-> Col("arg")]
           /\ env' = [mode |-> "skip", arg |-> a]
           /\ out' = visit_ArrayDistinct(Col("arg"))

ArrayUnion ==
    /\ Idle
    /\ \E l \in ArraysUpTo(MaxUnionLen) \cup {VNull},
          r \in ArraysUpTo(MaxUnionLen) \cup {VNull},
          mode \in ConcatModes :
           /\ op' = "ArrayUnion"
           /\ node' = [left |-> Col("left"), right |-> Col("right")]
           /\ env' = [mode |-> mode, left |-> l, right |-> r]
           /\ out' = visit_ArrayUnion(Col("left"), Col("right"))

MapGet ==
    /\ Idle
    /\ \E m \in Maps, key \in 1..MaxElem, d \in 0..MaxElem :
           /\ op' = "MapGet"
           /\ node' = [arg |-> Col("arg"), key |-> Col("key"), default |-> Col("default")]
           /\ env' = [mode |-> "skip", arg |-> m, key |-> VInt(key), default |-> VInt(d)]
           /\ out' = visit_MapGet(Col("arg"), Col("key"), Col("default"))

MapContains ==
    /\ Idle
    /\ \E m \in Maps, key \in 1..MaxElem :
           /\ op' = "MapContains"
           /\ node' = [arg |-> Col("arg"), key |-> Col("key")]
           /\ env' = [mode |-> "skip", arg |-> m, key |-> VInt(key)]
           /\ out' = visit_MapContains(Col("arg"), Col("key"))

\* an optional where predicate: omitted, or a translated child
OptWhere == {None, Col("where")}

IntervalFromInteger ==
    /\ Idle
    /\ \E unit \in IntervalUnits :
           /\ op' = "IntervalFromInteger"
           /\ node' = [arg |-> Col("arg"), unit |-> unit]
           /\ env' = [mode |-> "skip"]
           /\ out' = visit_IntervalFromInteger(Col("arg"), unit)

TimestampFromUNIX ==
    /\ Idle
    /\ \E unit \in TimestampUnits :
           /\ op' = "TimestampFromUNIX"
           /\ node' = [arg |-> Col("arg"), unit |-> unit]
           /\ env' = [mode |-> "skip"]
           /\ out' = visit_TimestampFromUNIX(Col("arg"), unit)

\* the types a cast or a literal is given
DTypes ==
    {DType("interval", u, n) : u \in IntervalUnits, n \in BOOLEAN}
    \cup {DType(t, "", n) :
             t \in {"int64", "float64", "decimal", "uuid", "string", "timestamp", "boolean"},
             n \in BOOLEAN}

CastNode ==
    /\ Idle
    /\ \E from \in {Int64, DType("string", "", TRUE)}, to \in DTypes :
           /\ op' = "Cast"
           /\ node' = [arg |-> Col("arg"), arg_dtype |-> from, to |-> to]
           /\ env' = [mode |-> "skip"]
           /\ out' = visit_Cast(from, Col("arg"), to)

NonNullLiteral ==
    /\ Idle
    /\ \E n \in 0..MaxElem, finite \in BOOLEAN, dtype \in DTypes :
           /\ dtype.name \notin {"timestamp", "boolean"}
           /\ ~finite => dtype.name \in {"float64", "decimal"}
           /\ op' = "NonNullLiteral"
           /\ node' = [value |-> [n |-> n, finite |-> finite], dtype |-> dtype]
           /\ env' = [mode |-> "skip"]
           /\ out' = visit_NonNullLiteral([n |-> n, finite |-> finite], dtype)

Correlation ==
    /\ Idle
    /\ \E lt \in {"boolean", "int64", "float64"}, ln \in BOOLEAN,
          rt \in {"boolean", "int64", "float64"}, rn \in BOOLEAN,
          how \in {"sample", "pop"}, where \in OptWhere :
           /\ op' = "Correlation"
           /\ node' = [left |-> Col("left"), right |-> Col("right"),
                       left_type |-> DType(lt, "", ln), right_type |-> DType(rt, "", rn),
                       how |-> how, where |-> where]
           /\ env' = [mode |-> "skip"]
           /\ out' = visit_Correlation(DType(lt, "", ln), DType(rt, "", rn),
                                       Col("left"), Col("right"), how, where)

\* digest names a HexDigest node may carry
DigestNames == {"md5", "sha256", "sha1", "sha512", "crc32"}

HexDigest ==
    /\ Idle
    /\ \E how \in DigestNames :
           /\ op' = "HexDigest"
           /\ node' = [arg |-> Col("arg"), how |-> how]
           /\ env' = [mode |-> "skip"]
           /\ out' = visit_HexDigest(Col("arg"), how)

\* the children of a uniform-mapping node, in argument order
ChildNames == <<"left", "right", "third", "fourth">>
Children(n) == [i \in 1..n |-> Col(ChildNames[i])]

SimpleOp ==
    /\ Idle
    /\ \E kind \in DOMAIN _SIMPLE_OPS, n \in 1..MaxArgs, where \in OptWhere :
           /\ kind \notin Reductions => where = None
           /\ op' = "SimpleOp"
           /\ node' = [kind |-> kind, kw |-> Children(n), where |-> where]
           /\ env' = [mode |-> "skip"]
           /\ out' = _fmt(kind, Children(n), where)

Next ==
    \/ IntervalFromInteger
    \/ TimestampFromUNIX
    \/ CastNode
    \/ NonNullLiteral
    \/ Correlation
    \/ HexDigest
    \/ SimpleOp
    \/ ArrayIndex
    \/ ArrayDistinct
    \/ ArrayUnion
    \/ MapGet
    \/ MapContains
    \/ ArraySlice
    \/ Return

Spec == Init /\ [][Next]_vars

(***************************************************************************)
(* What the properties below are stated with.                              *)
(***************************************************************************)
\* the value of the emitted expression on the row
Value == Eval(out.expr, env)

\* the normalized index the specification gives for index i of an array of length L
Norm(i, L) == IF i >= 0 THEN i ELSE Max(L + i, 0)

\* the 0-based half-open slice [lo, hi) of s, for lo >= 0
HalfOpen(s, lo, hi) ==
    LET ks == {k \in 0..(Len(s) - 1) : lo <= k /\ k < hi}
    IN [j \in 1..Cardinality(ks) |-> s[lo + j]]

ArgLen == Len(env.arg.s)

(***************************************************************************)
(* C2: for every array length L and index i, the expression built by       *)
(* _neg_idx_to_pos denotes i when i >= 0 and max(L + i, 0) when i < 0, so  *)
(* for i < 0 it lies in 0..L-1 (and is 0 when L = 0).                      *)
(***************************************************************************)
\* the stop bound of a slice is _neg_idx_to_pos(arg, stop), passed as is
StopGiven == op = "ArraySlice" /\ node.stop # None

C2_NegIdxNormalized ==
    StopGiven =>
        LET i == env.stop.n
            v == Eval(out.expr.args[3], env)
        IN /\ v = VInt(Norm(i, ArgLen))
           /\ i < 0 => v.n \in 0..Max(ArgLen - 1, 0)

\* L = 2, i = -3 gives 0
C2_Witness ==
    /\ StopGiven
    /\ ArgLen = 2
    /\ env.stop.n = -3
    /\ Eval(out.expr.args[3], env) = VInt(0)

(***************************************************************************)
(* C3 as stated: single-element indexing passes norm(i) + 1 to             *)
(* list_extract, the position the slice rule would compute.                *)
(***************************************************************************)
C3_IndexNormalizedLikeSlice ==
    op = "ArrayIndex" =>
        Eval(out.expr.args[2], env) = VInt(Norm(env.index.n, ArgLen) + 1)

(***************************************************************************)
(* C3 amended: single-element indexing shifts only a non-negative index:   *)
(* the position passed to list_extract is i + 1 for i >= 0 and i itself    *)
(* for i < 0, left to the engine's from-the-end addressing.  The element   *)
(* extracted is the one at 0-based position norm(i) when -L <= i < L, and  *)
(* none (null) when i < -L or i >= L.                                      *)
(***************************************************************************)
C3_IndexShiftsNonNegativeOnly ==
    op = "ArrayIndex" =>
        LET i == env.index.n
        IN /\ out.kind = "expr"
           /\ out.expr.name = "list_extract"
           /\ Eval(out.expr.args[2], env) = VInt(IF i >= 0 THEN i + 1 ELSE i)
           /\ Value = IF (0 - ArgLen) <= i /\ i < ArgLen
                      THEN env.arg.s[Norm(i, ArgLen) + 1]
                      ELSE VNull

\* a negative index within the array, and one beyond it
C3_Witness ==
    /\ op = "ArrayIndex"
    /\ ArgLen = 3
    /\ env.index.n = -4
    /\ Eval(out.expr.args[2], env) = VInt(-4)
    /\ Value = VNull

(***************************************************************************)
(* C4: in visit_ArraySlice an omitted start normalizes to 0 and an omitted *)
(* stop to the length L, a given bound is normalized by the negative-index *)
(* rule, and list_slice(arg, start + 1, stop), 1-based and inclusive,      *)
(* selects exactly the 0-based half-open slice [start', stop'); the begin  *)
(* position is within 1..L+1.                                              *)
(***************************************************************************)
C4_SliceSelectsHalfOpen ==
    op = "ArraySlice" =>
        LET L == ArgLen
            lo == IF node.start = None THEN 0 ELSE Norm(env.start.n, L)
            hi == IF node.stop = None THEN L ELSE Norm(env.stop.n, L)
            begin == Eval(out.expr.args[2], env)
            end == Eval(out.expr.args[3], env)
        IN /\ out.kind = "expr"
           /\ out.expr.name = "list_slice"
           /\ node.start = None => begin = VInt(1)
           /\ node.stop = None => end = VInt(L)
           /\ node.stop # None => end = VInt(hi)
           /\ begin.t = "int"
           /\ begin.n \in 1..(L + 1)
           /\ Value = VList(HalfOpen(env.arg.s, lo, hi))

\* [10,20,30,40] with start omitted and stop = 2 yields [10,20]
C4_Witness ==
    /\ op = "ArraySlice"
    /\ env.arg = VList(<<VInt(10), VInt(20), VInt(30), VInt(40)>>)
    /\ node.start = None
    /\ node.stop # None
    /\ env.stop = VInt(2)
    /\ Value = VList(<<VInt(10), VInt(20)>>)


(***************************************************************************)
(* C5 as stated: distinct (and union, on the concatenation) of a non-null  *)
(* array is the deduplicated non-null elements followed by one null        *)
(* exactly when the original length exceeds the deduplicated length, the   *)
(* deduplicated length counting a null once; a null array yields null.     *)
(***************************************************************************)
\* the array the distinct logic is applied to
DistinctArg ==
    IF op = "ArrayDistinct" THEN env.arg
    ELSE Prim("list_concat", <<env.left, env.right>>, env.mode)

NonNulls(s) == {s[i] : i \in {j \in DOMAIN s : ~IsNull(s[j])}}

\* the distinct elements of s, a null counted once
DedupLen(s) == Cardinality({s[i] : i \in DOMAIN s})

HasNull(s) == \E i \in DOMAIN s : IsNull(s[i])

\* r is the distinct non-null elements of s, then one null if and only if withNull
DistinctThenNull(r, s, withNull) ==
    LET n == Cardinality(NonNulls(s))
    IN /\ Len(r) = n + (IF withNull THEN 1 ELSE 0)
       /\ {r[i] : i \in 1..n} = NonNulls(s)
       /\ withNull => IsNull(r[n + 1])

C5_NullWhenLengthExceedsDedup ==
    op \in {"ArrayDistinct", "ArrayUnion"} =>
        IF IsNull(DistinctArg) THEN Value = VNull
        ELSE /\ Value.t = "list"
             /\ DistinctThenNull(Value.s, DistinctArg.s,
                                 Len(DistinctArg.s) > DedupLen(DistinctArg.s))

(***************************************************************************)
(* C5 amended: distinct (and union, on the concatenation) of a non-null    *)
(* array is the deduplicated non-null elements followed by exactly one     *)
(* null exactly when the array holds at least one null element (its count  *)
(* of non-null elements is below its length), and by no null otherwise; a  *)
(* null array yields null.                                                 *)
(***************************************************************************)
C5_NullWhenArrayHasNull ==
    op \in {"ArrayDistinct", "ArrayUnion"} =>
        IF IsNull(DistinctArg) THEN Value = VNull
        ELSE /\ Value.t = "list"
             /\ DistinctThenNull(Value.s, DistinctArg.s, HasNull(DistinctArg.s))

\* distinct([1,2,2,null,null]) is 1, 2 and one trailing null
C5_Witness ==
    /\ op = "ArrayDistinct"
    /\ env.arg = VList(<<VInt(1), VInt(2), VInt(2), VNull, VNull>>)
    /\ Value = VList(<<VInt(1), VInt(2), VNull>>)

(***************************************************************************)
(* C6: with element_at returning an empty list for an absent key and a     *)
(* one-element list for a present one, map lookup with default yields the  *)
(* default if and only if the key is absent; a key present with a null     *)
(* value yields that null, and a key present with a value yields it.       *)
(***************************************************************************)
C6_DefaultOnlyOnAbsence ==
    op = "MapGet" =>
        LET m == env.arg.m
            key == env.key.n
        IN IF key \notin DOMAIN m THEN Value = env.default
           ELSE Value = m[key]

(***************************************************************************)
(* C1: constructing an interval with a nanosecond unit ends in the         *)
(* unsupported-operation failure about nanosecond interval resolutions on  *)
(* every path that constructs intervals: IntervalFromInteger, an interval  *)
(* literal, and Cast to an interval type.                                  *)
(***************************************************************************)
NanosecondInterval ==
    \/ op = "IntervalFromInteger" /\ node.unit = "ns"
    \/ op = "NonNullLiteral" /\ node.dtype.name = "interval" /\ node.dtype.unit = "ns"
    \/ op = "Cast" /\ node.to.name = "interval" /\ node.to.unit = "ns"

C1_NanosecondIntervalUnsupported ==
    NanosecondInterval => out = Raised(UnsupportedOperationError, NanosecondMsg)

(***************************************************************************)
(* C7: sample correlation always fails with the unsupported-operation      *)
(* failure, whatever the operand types and the where predicate; population *)
(* correlation succeeds, casts each boolean operand to a 32-bit integer    *)
(* type of that operand's own nullability, passes the other operands       *)
(* unchanged, and threads the where predicate to the corr aggregate.       *)
(***************************************************************************)
Widened(x, type) ==
    IF type.name = "boolean"
    THEN [k |-> "cast", this |-> x,
          to |-> [k |-> "dtype", name |-> "int32", unit |-> "", nullable |-> type.nullable]]
    ELSE x

C7_Correlation ==
    op = "Correlation" =>
        IF node.how = "sample"
        THEN out.kind = "raise" /\ out.exc = UnsupportedOperationError
        ELSE /\ out.kind = "expr"
             /\ node.where # None =>
                    /\ out.expr.k = "filter"
                    /\ out.expr.expression = [k |-> "where", this |-> node.where]
             /\ node.where = None => out.expr.k = "call"
             /\ LET call == IF out.expr.k = "filter" THEN out.expr.this ELSE out.expr
                IN /\ call.k = "call"
                   /\ call.name = "corr"
                   /\ call.args = <<Widened(node.left, node.left_type),
                                    Widened(node.right, node.right_type)>>

\* population correlation of a nullable and a non-nullable boolean, filtered
C7_Witness ==
    /\ op = "Correlation"
    /\ node.how = "pop"
    /\ node.left_type.name = "boolean" /\ node.left_type.nullable
    /\ node.right_type.name = "boolean" /\ ~node.right_type.nullable
    /\ node.where # None
    /\ out.kind = "expr"
    /\ out.expr.k = "filter"
    /\ out.expr.this.args[2].to.nullable = FALSE

(***************************************************************************)
(* C8: for a Reduction kind of the uniform-mapping table the generated     *)
(* rule produces Filter(call, Where(where)) when where is given and the    *)
(* bare call when where is None; the call has the mapped name and the      *)
(* node's remaining children in argument order, and where is never one of  *)
(* its arguments.  For any other kind the rule produces a plain call over  *)
(* all children in argument order.                                         *)
(***************************************************************************)
C8_UniformMapping ==
    op = "SimpleOp" =>
        LET call == [k |-> "call", name |-> _SIMPLE_OPS[node.kind], args |-> node.kw]
        IN /\ out.kind = "expr"
           /\ IF node.kind \in Reductions /\ node.where # None
              THEN /\ out.expr.k = "filter"
                   /\ out.expr.this = call
                   /\ out.expr.expression = [k |-> "where", this |-> node.where]
                   /\ \A i \in DOMAIN out.expr.this.args :
                          out.expr.this.args[i] # node.where
              ELSE out.expr = call

\* a filtered bitwise aggregate
C8_Witness ==
    /\ op = "SimpleOp"
    /\ node.kind = "BitAnd"
    /\ node.where # None
    /\ out.kind = "expr"
    /\ out.expr.k = "filter"
    /\ out.expr.this.name = "bit_and"

(***************************************************************************)
(* C9: hashing with a name outside the allow-list {md5, sha256} always     *)
(* fails and produces no expression, no substitute either; hashing with an *)
(* allow-listed name produces the call of exactly that name with the       *)
(* single argument arg.                                                    *)
(***************************************************************************)
C9_HashAllowList ==
    op = "HexDigest" =>
        IF node.how \in {"md5", "sha256"}
        THEN out = [kind |-> "expr",
                    expr |-> [k |-> "call", name |-> node.how, args |-> <<node.arg>>]]
        ELSE out.kind = "raise"

\* sha1 is refused
C9_Witness ==
    /\ op = "HexDigest"
    /\ node.how = "sha1"
    /\ out.kind = "raise"

(***************************************************************************)
(* C10: every failure a rule raises because the dialect cannot express the *)
(* request (nanosecond interval, epoch unit, sample correlation, digest    *)
(* name outside the allow-list) is of the unsupported-operation kind, none *)
(* of the not-implemented kind or of any other.                            *)
(***************************************************************************)
C10_FailuresAreUnsupportedOperation ==
    /\ op \in {"IntervalFromInteger", "NonNullLiteral", "TimestampFromUNIX",
                "Correlation", "HexDigest"}
    /\ out.kind = "raise"
    => out.exc = UnsupportedOperationError

====
